---- MODULE Spec2Model ----
(***************************************************************************)
(* Model of sysbrokers/IB/ibConnection.py: the mongo-backed client-id      *)
(* tracker (mongoIBclientIDtracker) and the connection lifecycle           *)
(* (connectionIB) that allocates a client id on construction and releases  *)
(* it in close_connection.                                                 *)
(*                                                                         *)
(* Several processes share one collection (IBClientTracker).  Every access *)
(* to the collection is one step; what a process does between two accesses *)
(* is local to it and folded into the step of the access before it.        *)
(***************************************************************************)
EXTENDS Integers, FiniteSets

\* ---------------------------------------------------------------- bounds
NumProcs == 2
MaxId == 3
AltOffset == 3

\* ------------------------------------------------------ program constants
DEFAULT_IB_IDOFFSET == 1
REQID_PER_CLIENT == 1000
None == -1

Procs == 1..NumProcs
Ids == 0..MaxId

\* ib_defaults(): ib_idoffset of the process's private config file, else the
\* default.  Odd processes run without a config file, even ones with a file
\* that sets ib_idoffset to AltOffset.
ib_defaults(p) == IF p % 2 = 1 THEN DEFAULT_IB_IDOFFSET ELSE AltOffset

\* the client ids a caller passes to connectionIB(client=...): one below
\* every offset, and each offset itself
Requested == {0, DEFAULT_IB_IDOFFSET, AltOffset}

VARIABLES
    table,            \* the collection: client_id -> number of records holding it
    unique_index,     \* whether the index on client_id has been created
    pc,               \* per process: where its connectionIB instance is
    clientid_to_try,  \* per process: the client argument of the constructor
    next_id,          \* per process: get_next_clientid's candidate
    client,           \* per process: _ib_connection_config['client']
    err,              \* per process: the exception that ended the constructor
    disc,             \* per process: how the last disconnect() ended ("raised":
                      \* caught by close_connection and logged as a warning)
    conn,             \* per process: how the constructor's connect() ended
    reqIDoffset,      \* per process: the reqIDoffset given to ibClient
    live,             \* per process: its instance's record is in the table
                      \* (locked by it, not released or cleared since)
    outstanding,      \* client_id -> allocations returned and not released since
    reuse             \* the allocate / release / allocate sequence in progress

vars == <<table, unique_index, pc, clientid_to_try, next_id, client,
          err, disc, conn, reqIDoffset, live, outstanding, reuse>>

Max(S) == CHOOSE x \in S : \A y \in S : y <= x
Min(S) == CHOOSE x \in S : \A y \in S : x <= y

EmptyTable == [c \in Ids |-> 0]

\* ------------------------------------------------- the collection (pymongo)

\* mongoConnection.create_index("client_id") builds a unique index
create_index(idx) == TRUE

\* collection.insert_one: rejected by the unique index when the key is there
insert_one(t, idx, c) ==
    IF idx /\ t[c] > 0
    THEN [err |-> "DuplicateKey", table |-> t]
    ELSE [err |-> "none", table |-> [t EXCEPT ![c] = @ + 1]]

\* collection.delete_one: removes one matching record, none when there is none
delete_one(t, c) == IF t[c] > 0 THEN [t EXCEPT ![c] = @ - 1] ELSE t

\* collection.delete_many({})
delete_many(t) == EmptyTable

\* ------------------------------------------------- mongoIBclientIDtracker

\* the methods the class defines (a call of any other name on a tracker
\* raises AttributeError)
tracker_methods ==
    {"__init__", "__repr__", "_is_clientid_used", "return_valid_client_id",
     "get_next_clientid", "_get_list_of_clientids", "_add_clientid",
     "clear_all_clientids", "release_clientid"}

tracker_init_no_index(idx) == idx
\* __init__: self._mongo.create_index("client_id")
tracker_init(idx) == create_index(idx)

get_list_of_clientids(t) == {c \in Ids : t[c] > 0}

is_clientid_used(t, clientid) == clientid \in get_list_of_clientids(t)

\* get_next_clientid up to the lock: the candidate computed from the list read
next_clientid_from_zero(k, current_list) ==
    IF current_list = {}
    THEN [err |-> "none", id |-> k]
    ELSE LET missing_values == (0..(Max(current_list) + 1)) \ current_list
         IN  [err |-> "none", id |-> Min(missing_values)]
next_clientid(k, current_list) ==
    IF current_list = {}
    THEN [err |-> "none", id |-> k]
    ELSE LET full_set == k..(Max(current_list) + 1)
             missing_values == full_set \ current_list
         IN  IF missing_values = {}
             THEN [err |-> "ValueError", id |-> None]   \* min() of an empty set
             ELSE [err |-> "none", id |-> Min(missing_values)]

\* return_valid_client_id up to the lock: the id it goes on to lock, or the
\* exception it raises.  The elif calls self.is_clientid_used, a name the
\* class does not define.
return_valid_client_id(k, try, t) ==
    IF try = None
    THEN next_clientid(k, get_list_of_clientids(t))
    ELSE IF "is_clientid_used" \notin tracker_methods
    THEN [err |-> "AttributeError", id |-> None]
    ELSE IF is_clientid_used(t, try)
    THEN next_clientid(k, get_list_of_clientids(t))
    ELSE [err |-> "none", id |-> try]

\* _add_clientid: insert_one, whose exception is not caught
add_clientid_replace(t, idx, c) == insert_one(delete_many(t), idx, c)
add_clientid_swallow(t, idx, c) ==
    [err |-> "none", table |-> insert_one(t, idx, c).table]
add_clientid(t, idx, c) == insert_one(t, idx, c)

release_clientid_all(t, clientid) == delete_many(t)
release_clientid_nomatch(t, clientid) == t
release_clientid(t, clientid) == delete_one(t, clientid)

clear_all_clientids_one(t) ==
    IF get_list_of_clientids(t) = {} THEN t
    ELSE delete_one(t, Min(get_list_of_clientids(t)))
clear_all_clientids(t) == delete_many(t)

\* ------------------------------------------------------------------ state

\* reuse follows one "allocate, release, allocate" sequence that starts with
\* every other process between sessions and in which no other call of any
\* process comes in between:
\*   stage 1  get_next_clientid of proc (offset off) read the table, candidate first
\*   stage 2  that call locked first and returned it
\*   stage 3  first was released
\*   stage 4  get_next_clientid of proc (same offset) read the table again
\*   stage 5  that call locked its candidate and returned it (second)
\* and likewise one "clear_all, allocate" sequence:
\*   stage 6  clear_all_clientids ran
\*   stage 7  get_next_clientid of proc (offset off) read the table, candidate first
\*   stage 8  that call locked its candidate and returned it (second)
NoReuse == [stage |-> 0, proc |-> 0, off |-> 0, first |-> None, second |-> None]

ReuseOnRead(p, k, r) ==
    IF r.err # "none" THEN NoReuse
    ELSE IF reuse.stage = 3 /\ reuse.off = k
    THEN [reuse EXCEPT !.stage = 4, !.proc = p]
    ELSE IF reuse.stage = 6
    THEN [stage |-> 7, proc |-> p, off |-> k, first |-> r.id, second |-> None]
    ELSE IF \A q \in Procs \ {p} : pc[q] = "Created"
    THEN [stage |-> 1, proc |-> p, off |-> k, first |-> r.id, second |-> None]
    ELSE NoReuse

ReuseOnLock(p, c, ok) ==
    IF ok /\ reuse.proc = p /\ reuse.stage = 1 THEN [reuse EXCEPT !.stage = 2]
    ELSE IF ok /\ reuse.proc = p /\ reuse.stage = 4
    THEN [reuse EXCEPT !.stage = 5, !.second = c]
    ELSE IF ok /\ reuse.proc = p /\ reuse.stage = 7
    THEN [reuse EXCEPT !.stage = 8, !.second = c]
    ELSE NoReuse

ReuseOnRelease(c) ==
    IF reuse.stage = 2 /\ reuse.first = c THEN [reuse EXCEPT !.stage = 3]
    ELSE NoReuse

ReuseOnClear == [NoReuse EXCEPT !.stage = 6]

\* a step of p that does not touch the table
ReuseOnOther(p) == IF reuse.proc = p THEN reuse ELSE NoReuse

Init ==
    /\ table = EmptyTable
    /\ unique_index = FALSE
    /\ pc = [p \in Procs |-> "Created"]
    /\ clientid_to_try = [p \in Procs |-> None]
    /\ next_id = [p \in Procs |-> None]
    /\ client = [p \in Procs |-> None]
    /\ err = [p \in Procs |-> "none"]
    /\ disc = [p \in Procs |-> "none"]
    /\ conn = [p \in Procs |-> "no"]
    /\ reqIDoffset = [p \in Procs |-> None]
    /\ live = [p \in Procs |-> FALSE]
    /\ outstanding = EmptyTable
    /\ reuse = NoReuse

\* ------------------------------------------------------------ connectionIB

\* the tracker's offset in process p: connectionIB passes it ib_defaults()'s
idoffset(p) == ib_defaults(p)

\* __init__ up to the first read of the table: ib_defaults, the tracker's
\* construction and return_valid_client_id(client) as far as its lock.
\* (r.id \in Ids keeps the ids within the model's bound.)
Construct(p) ==
    \E try \in {None} \cup Requested :
        LET r == return_valid_client_id(idoffset(p), try, table) IN
        /\ pc[p] = "Created"
        /\ r.err = "none" => r.id \in Ids
        /\ unique_index' = tracker_init(unique_index)
        /\ clientid_to_try' = [clientid_to_try EXCEPT ![p] = try]
        /\ next_id' = [next_id EXCEPT ![p] = r.id]
        /\ err' = [err EXCEPT ![p] = r.err]
        /\ pc' = [pc EXCEPT ![p] = IF r.err = "none" THEN "Allocating" ELSE "Failed"]
        /\ reuse' = IF try = None THEN ReuseOnRead(p, idoffset(p), r)
                  ELSE ReuseOnOther(p)
        /\ UNCHANGED <<table, client, disc, conn, reqIDoffset, live, outstanding>>

\* the lock: _add_clientid(next_id), then the return to __init__
Lock(p) ==
    LET r == add_clientid(table, unique_index, next_id[p]) IN
    /\ pc[p] = "Allocating"
    /\ table' = r.table
    /\ err' = [err EXCEPT ![p] = r.err]
    /\ IF r.err = "none"
       THEN /\ pc' = [pc EXCEPT ![p] = "Allocated"]
            /\ client' = [client EXCEPT ![p] = next_id[p]]
            /\ outstanding' = [outstanding EXCEPT ![next_id[p]] = @ + 1]
            /\ live' = [live EXCEPT ![p] = TRUE]
       ELSE /\ pc' = [pc EXCEPT ![p] = "Failed"]
            /\ UNCHANGED <<client, outstanding, live>>
    /\ reuse' = ReuseOnLock(p, next_id[p], r.err = "none")
    /\ UNCHANGED <<unique_index, clientid_to_try, next_id, disc, conn, reqIDoffset>>

\* reqIDoffset = client*1000
req_id_offset_plus(c) == c + REQID_PER_CLIENT
req_id_offset(c) == c * REQID_PER_CLIENT

Connect_before_lock(p) ==
    /\ pc[p] \in {"Allocating", "Allocated"}
    /\ reqIDoffset' = [reqIDoffset EXCEPT ![p] = req_id_offset(client[p])]
    /\ \/ /\ pc' = [pc EXCEPT ![p] = "Connected"]
          /\ conn' = [conn EXCEPT ![p] = "ok"]
          /\ UNCHANGED err
       \/ /\ pc' = [pc EXCEPT ![p] = "Failed"]
          /\ conn' = [conn EXCEPT ![p] = "raised"]
          /\ err' = [err EXCEPT ![p] = "ConnectError"]
    /\ reuse' = ReuseOnOther(p)
    /\ UNCHANGED <<table, unique_index, clientid_to_try, next_id, client,
                   disc, live, outstanding>>
\* the rest of __init__: reqIDoffset, the ibServer and ibClient constructors,
\* then self.connect(ipaddress, port, client) returns or raises
Connect(p) ==
    /\ pc[p] = "Allocated"
    /\ reqIDoffset' = [reqIDoffset EXCEPT ![p] = req_id_offset(client[p])]
    /\ \/ /\ pc' = [pc EXCEPT ![p] = "Connected"]
          /\ conn' = [conn EXCEPT ![p] = "ok"]
          /\ UNCHANGED err
       \/ /\ pc' = [pc EXCEPT ![p] = "Failed"]
          /\ conn' = [conn EXCEPT ![p] = "raised"]
          /\ err' = [err EXCEPT ![p] = "ConnectError"]
    /\ reuse' = ReuseOnOther(p)
    /\ UNCHANGED <<table, unique_index, clientid_to_try, next_id, client,
                   disc, live, outstanding>>

Disconnect_release_first(p) ==
    /\ pc[p] \in {"Connected", "Released"}
    /\ pc' = [pc EXCEPT ![p] = "Disconnecting"]
    /\ \/ disc' = [disc EXCEPT ![p] = "ok"]
       \/ disc' = [disc EXCEPT ![p] = "raised"]
    /\ table' = release_clientid(table, client[p])
    /\ outstanding' = [outstanding EXCEPT ![client[p]] = 0]
    /\ live' = [q \in Procs |-> live[q] /\ client[q] # client[p]]
    /\ reuse' = NoReuse
    /\ UNCHANGED <<unique_index, clientid_to_try, next_id, client,
                   err, conn, reqIDoffset>>
\* close_connection, the try: self.disconnect() returns, or raises and is logged
Disconnect(p) ==
    /\ pc[p] \in {"Connected", "Released"}
    /\ pc' = [pc EXCEPT ![p] = "Disconnecting"]
    /\ \/ disc' = [disc EXCEPT ![p] = "ok"]
       \/ disc' = [disc EXCEPT ![p] = "raised"]
    /\ reuse' = ReuseOnOther(p)
    /\ UNCHANGED <<table, unique_index, clientid_to_try, next_id, client,
                   err, conn, reqIDoffset, live, outstanding>>

\* live once the record of id c has been released
Unlocked(c) == [q \in Procs |-> live[q] /\ client[q] # c]

Release_unless_raised(p) ==
    /\ pc[p] = "Disconnecting"
    /\ table' = IF disc[p] = "raised" THEN table
                ELSE release_clientid(table, client[p])
    /\ pc' = [pc EXCEPT ![p] = "Released"]
    /\ outstanding' = [outstanding EXCEPT ![client[p]] = 0]
    /\ live' = Unlocked(client[p])
    /\ reuse' = IF reuse.proc = p THEN ReuseOnRelease(client[p]) ELSE NoReuse
    /\ UNCHANGED <<unique_index, clientid_to_try, next_id, client, err, disc,
                   conn, reqIDoffset>>
Release_reraise(p) ==
    /\ pc[p] = "Disconnecting"
    /\ table' = release_clientid(table, client[p])
    /\ pc' = [pc EXCEPT ![p] = IF disc[p] = "raised" THEN "Failed" ELSE "Released"]
    /\ err' = [err EXCEPT ![p] = IF disc[p] = "raised" THEN "DisconnectFailure"
                                 ELSE @]
    /\ outstanding' = [outstanding EXCEPT ![client[p]] = 0]
    /\ live' = Unlocked(client[p])
    /\ reuse' = IF reuse.proc = p THEN ReuseOnRelease(client[p]) ELSE NoReuse
    /\ UNCHANGED <<unique_index, clientid_to_try, next_id, client, disc,
                   conn, reqIDoffset>>
\* close_connection, the finally: release_clientid(client), then the return
Release(p) ==
    /\ pc[p] = "Disconnecting"
    /\ table' = release_clientid(table, client[p])
    /\ pc' = [pc EXCEPT ![p] = "Released"]
    /\ outstanding' = [outstanding EXCEPT ![client[p]] = 0]
    /\ live' = Unlocked(client[p])
    /\ reuse' = IF reuse.proc = p THEN ReuseOnRelease(client[p]) ELSE NoReuse
    /\ UNCHANGED <<unique_index, clientid_to_try, next_id, client, err, disc,
                   conn, reqIDoffset>>

\* the instance is dropped (closed, failed, or its process died while
\* connected) and the process is ready to construct another
NewSession(p) ==
    /\ pc[p] \in {"Connected", "Released", "Failed"}
    /\ pc' = [pc EXCEPT ![p] = "Created"]
    /\ clientid_to_try' = [clientid_to_try EXCEPT ![p] = None]
    /\ next_id' = [next_id EXCEPT ![p] = None]
    /\ client' = [client EXCEPT ![p] = None]
    /\ err' = [err EXCEPT ![p] = "none"]
    /\ disc' = [disc EXCEPT ![p] = "none"]
    /\ conn' = [conn EXCEPT ![p] = "no"]
    /\ reqIDoffset' = [reqIDoffset EXCEPT ![p] = None]
    /\ live' = [live EXCEPT ![p] = FALSE]
    /\ reuse' = ReuseOnOther(p)
    /\ UNCHANGED <<table, unique_index, outstanding>>

\* ------------------------------------- the tracker used on its own (operator)

\* mongoIBclientIDtracker().release_clientid(c), for an id c in the table (for
\* any other id the call changes nothing: see release_clientid)
AdminRelease(c) ==
    /\ table[c] > 0
    /\ unique_index' = tracker_init(unique_index)
    /\ table' = release_clientid(table, c)
    /\ outstanding' = [outstanding EXCEPT ![c] = 0]
    /\ live' = Unlocked(c)
    /\ reuse' = ReuseOnRelease(c)
    /\ UNCHANGED <<pc, clientid_to_try, next_id, client, err, disc, conn, reqIDoffset>>

\* mongoIBclientIDtracker().clear_all_clientids()
ClearAll ==
    /\ unique_index' = tracker_init(unique_index)
    /\ table' = clear_all_clientids(table)
    /\ outstanding' = EmptyTable
    /\ live' = [q \in Procs |-> FALSE]
    /\ reuse' = ReuseOnClear
    /\ UNCHANGED <<pc, clientid_to_try, next_id, client, err, disc, conn, reqIDoffset>>

Next ==
    \/ \E p \in Procs : Construct(p)
    \/ \E p \in Procs : Lock(p)
    \/ \E p \in Procs : Connect(p)
    \/ \E p \in Procs : Disconnect(p)
    \/ \E p \in Procs : Release(p)
    \/ \E p \in Procs : NewSession(p)
    \/ \E c \in Ids : AdminRelease(c)
    \/ ClearAll

Spec == Init /\ [][Next]_vars

\* ------------------------------------------------------------- properties

\* the states in which a process's instance has a client id
Holding == {"Allocated", "Connected", "Disconnecting"}

\* p's constructor call begins (and, with a client argument or on an error of
\* get_next_clientid, ends) in this step
Constructs(p) == pc[p] = "Created" /\ pc'[p] # "Created"

\* p's _add_clientid runs in this step
Locks(p) == pc[p] = "Allocating" /\ pc'[p] # "Allocating"

\* p's close_connection releases and returns in this step
Releases(p) == pc[p] = "Disconnecting" /\ pc'[p] = "Released"

\* the smallest integer >= k that is not in S
SmallestFree(k, S) ==
    CHOOSE i \in k..(k + Cardinality(S)) :
        i \notin S /\ \A j \in k..(i - 1) : j \in S

\* t without any record of c
Without(t, c) == [d \in Ids |-> IF d = c THEN 0 ELSE t[d]]

\* C1: under every interleaving of the allocate and release steps of the
\* processes, no client id has been returned by two allocate calls neither of
\* which has been released since.
C1_NoSharedId == \A c \in Ids : outstanding[c] <= 1

\* two sessions hold different ids at once, and a third allocation lost a race
C1_Witness ==
    \E p, q \in Procs :
        /\ p # q
        /\ pc[p] \in Holding /\ pc[q] \in Holding
        /\ client[p] # client[q]
        /\ outstanding[client[p]] = 1 /\ outstanding[client[q]] = 1

\* C2: in every reachable state the table holds at most one record for each
\* client_id.
C2_OneRecordPerId == \A c \in Ids : table[c] <= 1

\* an insert of an id already in the table was attempted and the table holds
\* that id once
C2_Witness ==
    \E p \in Procs :
        /\ pc[p] = "Failed" /\ err[p] = "DuplicateKey"
        /\ table[next_id[p]] = 1

\* C3: when close_connection returns, the table holds no record for the
\* session's client id, whether disconnect() returned or raised.
C3_ReleasedAfterClose ==
    [][\A p \in Procs : Releases(p) => table'[client[p]] = 0]_vars

\* a session whose disconnect raised has been closed and its id is not in the
\* table, which still holds another id
C3_Witness ==
    \E p \in Procs :
        /\ pc[p] = "Released" /\ disc[p] = "raised"
        /\ table[client[p]] = 0
        /\ \E c \in Ids : table[c] > 0

\* C4: allocate with no requested id ends normally and goes on to lock the
\* smallest integer >= offset that is not in the table it read, whatever the
\* table holds (ids below the offset included).
C4_SmallestFreeAlways ==
    [][\A p \in Procs :
        (Constructs(p) /\ clientid_to_try'[p] = None) =>
            /\ err'[p] = "none"
            /\ next_id'[p] = SmallestFree(idoffset(p), get_list_of_clientids(table))
      ]_vars

\* C5: allocate with a requested id that is not in the table ends without an
\* error and goes on to lock exactly the requested id.
C5_RequestedFreeIsLocked ==
    [][\A p \in Procs :
        (Constructs(p) /\ clientid_to_try'[p] # None
                       /\ table[clientid_to_try'[p]] = 0) =>
            /\ err'[p] = "none"
            /\ pc'[p] = "Allocating"
            /\ next_id'[p] = clientid_to_try'[p]
      ]_vars

\* C6: allocate with a requested id that is in the table raises nothing and
\* goes on to lock the next free id, which is not the requested one, and the
\* requested id stays in the table.
C6_RequestedHeldFallsBack ==
    [][\A p \in Procs :
        (Constructs(p) /\ clientid_to_try'[p] # None
                       /\ table[clientid_to_try'[p]] > 0) =>
            /\ err'[p] = "none"
            /\ pc'[p] = "Allocating"
            /\ next_id'[p] # clientid_to_try'[p]
            /\ table'[clientid_to_try'[p]] > 0
      ]_vars

\* C7: an allocator whose candidate was inserted by another allocator between
\* its read and its insert ends with DuplicateKey: the constructor fails (no
\* retry), no id is returned, and the table is unchanged with one record for
\* the candidate.
C7_RaceSurfacesDuplicateKey ==
    [][\A p \in Procs :
        (Locks(p) /\ table[next_id[p]] > 0) =>
            /\ pc'[p] = "Failed"
            /\ err'[p] = "DuplicateKey"
            /\ client'[p] = None
            /\ table' = table
            /\ table'[next_id[p]] = 1
      ]_vars

\* two allocators computed the same candidate; one holds it, the other failed
C7_Witness ==
    \E p, q \in Procs :
        /\ p # q
        /\ pc[p] = "Failed" /\ err[p] = "DuplicateKey"
        /\ pc[q] \in Holding /\ client[q] = next_id[p]
        /\ table[next_id[p]] = 1

C9_ReleaseFrame ==
    [][\A p \in Procs :
        Releases(p) =>
            /\ table[client[p]] = 0 => table' = table
            /\ table[client[p]] > 0 => table' = Without(table, client[p])
      ]_vars

\* a closed session's id is gone from the table and another id is still
\* there, while a second session is about to release an id that is not in
\* the table
C9_Witness ==
    \E p \in Procs :
        /\ pc[p] = "Released"
        /\ table[client[p]] = 0
        /\ \E c \in Ids : c # client[p] /\ table[c] > 0
        /\ \E q \in Procs \ {p} : pc[q] = "Disconnecting" /\ table[client[q]] = 0

\* C10: allocate() returning X, then release(X), then allocate() of the same
\* tracker with nothing in between returns X again.
C10_ReuseAfterRelease ==
    /\ reuse.stage = 4 => next_id[reuse.proc] = reuse.first
    /\ reuse.stage = 5 => reuse.second = reuse.first

\* the sequence has completed for an id above the offset, other ids being held
C10_Witness ==
    /\ reuse.stage = 5
    /\ reuse.first > reuse.off
    /\ \E c \in Ids : c > reuse.first /\ table[c] > 0

\* C11: after clear_all the table is empty whatever it held, and the next
\* allocate with no requested id, nothing else in between, finds its
\* candidate free, and locks and returns the tracker's offset.
C11_OffsetAfterClearAll ==
    /\ reuse.stage = 6 => table = EmptyTable
    /\ reuse.stage = 7 => reuse.first = reuse.off /\ table[reuse.first] = 0
                          /\ next_id[reuse.proc] = reuse.off
    /\ reuse.stage = 8 => reuse.second = reuse.off /\ table[reuse.off] = 1

\* clear_all removed the record of a session that still has its id, and the
\* allocate that followed returned the higher offset
C11_Witness ==
    /\ reuse.stage = 8
    /\ reuse.off = AltOffset
    /\ \E q \in Procs \ {reuse.proc} : pc[q] \in Holding /\ table[client[q]] = 0

\* p's close_connection begins and its disconnect() attempt ends in this step
Disconnects(p) == pc[p] \in {"Connected", "Released"} /\ pc'[p] = "Disconnecting"

\* C12: in every close_connection the release runs exactly once, after the
\* disconnect attempt has returned or raised: the attempt's step leaves the
\* table alone, and the close ends only by the step that releases the id.
C12_ReleaseOnceAfterDisconnect ==
    [][\A p \in Procs :
        /\ Disconnects(p) => table' = table
        /\ (pc[p] = "Disconnecting" /\ pc'[p] # "Disconnecting") =>
              /\ pc'[p] = "Released"
              /\ disc[p] \in {"ok", "raised"}
              /\ table' = Without(table, client[p])
      ]_vars

\* one close has ended; in another the disconnect has raised and the record
\* is still in the table, the release being next
C12_Witness ==
    \E p, q \in Procs :
        /\ pc[p] = "Released" /\ table[client[p]] = 0
        /\ pc[q] = "Disconnecting" /\ disc[q] = "raised"
        /\ live[q] /\ table[client[q]] = 1

\* C13: a disconnect() that raises is caught and logged inside
\* close_connection and never reaches the caller: the close goes on to the
\* release and returns normally.
C13_DisconnectFailureAbsorbed ==
    \A p \in Procs :
        disc[p] = "raised" =>
            /\ pc[p] \in {"Disconnecting", "Released"}
            /\ err[p] = "none"

\* a connected session whose disconnect raised has been closed without error
C13_Witness ==
    \E p \in Procs :
        /\ pc[p] = "Released" /\ disc[p] = "raised"
        /\ conn[p] = "ok" /\ err[p] = "none"

\* the exceptions that end return_valid_client_id
AllocationErrors == {"ValueError", "DuplicateKey", "AttributeError"}

\* C14: the constructor attempts connect() only after the allocation has
\* returned an id; when the allocation fails the constructor ends without a
\* connect attempt.
C14_ConnectAfterAllocate ==
    \A p \in Procs :
        /\ conn[p] # "no" => client[p] # None /\ err[p] \notin AllocationErrors
        /\ err[p] \in AllocationErrors =>
              /\ pc[p] = "Failed"
              /\ conn[p] = "no" /\ reqIDoffset[p] = None /\ client[p] = None

\* an allocation lost the race for an id and ended without a connect attempt,
\* while the winner is connected
C14_Witness ==
    \E p, q \in Procs :
        /\ pc[p] = "Failed" /\ err[p] = "DuplicateKey" /\ conn[p] = "no"
        /\ pc[q] = "Connected" /\ conn[q] = "ok" /\ client[q] = next_id[p]

\* C15: a session's reqIDoffset is its client id * 1000, so two sessions with
\* different client ids have offsets at least 1000 apart and disjoint ranges
\* [offset, offset + 999].
C15_RequestIdRangesDisjoint ==
    /\ \A p \in Procs : reqIDoffset[p] # None => reqIDoffset[p] = client[p] * 1000
    /\ \A p, q \in Procs :
         (reqIDoffset[p] # None /\ reqIDoffset[q] # None /\ client[p] # client[q]) =>
            \/ reqIDoffset[p] + 999 < reqIDoffset[q]
            \/ reqIDoffset[q] + 999 < reqIDoffset[p]

\* two connected sessions with different client ids
C15_Witness ==
    \E p, q \in Procs :
        /\ pc[p] = "Connected" /\ pc[q] = "Connected"
        /\ client[p] # client[q]
        /\ reqIDoffset[p] # None /\ reqIDoffset[q] # None

\* C16: on every path by which a session with an allocated id ends (the close
\* returns, or the constructor or the session raises) the release has run:
\* the id is not in the table when the session has ended.
C16_ReleaseOnEveryExit ==
    [][\A p \in Procs :
        (pc[p] \in Holding /\ pc'[p] \in {"Released", "Failed"}) =>
            table'[client[p]] = 0
      ]_vars

\* C17: an instance only moves forward through its states; once Released, a
\* further close_connection attempts no disconnect and releases nothing.
C17_NoCloseAfterReleased ==
    [][\A p \in Procs :
        pc[p] = "Released" =>
            /\ pc'[p] \in {"Released", "Created"}
            /\ disc'[p] = disc[p] \/ pc'[p] = "Created"
      ]_vars

\* C18: a record stays in the table through every allocate and through
\* every close of a session with another id; a step of a session removes a
\* record only as the release of that session's own id (the other ways are
\* clear_all and a release of that same id by the operator).
C18_LocksStayUntilReleased ==
    [][\A p \in Procs :
        /\ pc'[p] # pc[p] =>
              \A c \in Ids :
                  table'[c] < table[c] => Releases(p) /\ c = client[p]
        /\ (Constructs(p) \/ Locks(p)) =>
              \A c \in Ids :
                  table[c] > 0 => table'[c] = table[c]
      ]_vars

\* a record nobody holds any more is in the table while another session has
\* allocated a different id and a third has closed
C18_Witness ==
    \E c \in Ids :
        /\ table[c] > 0
        /\ \A p \in Procs : client[p] # c /\ next_id[p] # c
        /\ \E p \in Procs : pc[p] = "Released" /\ client[p] # c

\* C19 as claimed: the release of a session's close_connection never deletes
\* the record of another live session.
C19_CloseNeverDeletesOthersLock ==
    [][\A p \in Procs :
        Releases(p) =>
            \A q \in Procs \ {p} :
                live[q] => table'[client[q]] = table[client[q]]
      ]_vars

\* C19: the release of the close_connection of a session whose own record is
\* still in the table (not released or cleared since it was locked) never
\* deletes the record of another live session.
C19_LiveCloseKeepsOthersLock ==
    [][\A p \in Procs :
        (Releases(p) /\ live[p]) =>
            /\ table[client[p]] = 1
            /\ \A q \in Procs \ {p} :
                 live[q] => client[q] # client[p]
                            /\ table'[client[q]] = table[client[q]]
      ]_vars

\* a session has closed and another is live with its record in the table
C19_Witness ==
    \E p, q \in Procs :
        /\ pc[p] = "Released" /\ disc[p] = "ok" /\ table[client[p]] = 0
        /\ pc[q] \in Holding /\ live[q] /\ table[client[q]] = 1

\* C20: an allocate with a requested id never ends in an error because the
\* id is held, not even when another process locks it between the check and
\* the insert: it goes on to lock and return some id.
C20_RequestedNeverFails ==
    [][\A p \in Procs :
        /\ (Constructs(p) /\ clientid_to_try'[p] # None) => pc'[p] = "Allocating"
        /\ (Locks(p) /\ clientid_to_try[p] # None) => pc'[p] = "Allocated"
      ]_vars

====
